---- MODULE Spec2Model ----
(***************************************************************************)
(* The console dashboard of incus-osd (internal/tui/tui.go): the lazily    *)
(* constructed singleton, the log sink Write, the periodic redraw of the   *)
(* frame, the modal layer and the footer composer wrapFooterText.          *)
(*                                                                         *)
(* Text is a sequence of tokens.  A token is one byte, except the color    *)
(* directives and the key/level fragments of a log record, which stand for *)
(* the bytes they are spelled with (ByteLen).                              *)
(***************************************************************************)
EXTENDS Integers, Sequences, FiniteSets, TLC

VARIABLES
    wLabel,     \* wrapFooterText: the label argument
    wText,      \* wrapFooterText: the text argument
    wWidth,     \* wrapFooterText: the maxLineLength argument
    wOut,       \* wrapFooterText: the returned lines
    wDone,      \* wrapFooterText: whether the call has returned
    addrsOut,   \* getIPAddresses: the returned addresses
    addrsDone,  \* getIPAddresses: whether the call has returned
    body,       \* the log pane (t.textView): the text written to it
    mirror,     \* os.Stdout: the text written to it
    wr,         \* per log writer: its place in Write and Write's locals
    tuiInstance,\* the package variable: 0 is nil, else an index of instances
    instances,  \* the tui objects newTUI has allocated, in order
    get,        \* per caller of GetTUI: its place in it and its locals
    returned,   \* the instances GetTUI has returned with a nil error
    tui,        \* the dashboard the methods are called on: its fields set
    frame,      \* t.frame: its header and footer items and its primitive
    pages,      \* t.pages: the named pages, bottom to top
    drawQueued, \* t.app: a Draw() waits for the event loop
    run,        \* the caller of Run: its place, and the Run calls made
    sched,      \* per goroutine started by Run: its place and its locals
    mc,         \* the caller of DisplayModal and RemoveModal
    osRelease,  \* what systemd.GetCurrentRelease answers
    stateStore, \* what state.LoadOrCreate answers
    ifaceAddrs, \* what net.InterfaceAddrs answers
    screenSize, \* what t.screen.Size() answers
    clock,      \* time.Now().UTC()
    snap,       \* history: the frame as the redraw in progress found it
    stable,     \* history: redraws completed since the sources last changed
    tainted     \* history: a source changed during the redraw in progress

wrapVars == <<wLabel, wText, wWidth, wOut, wDone>>
addrVars == <<addrsOut, addrsDone>>
logVars == <<body, mirror, wr>>
getVars == <<tuiInstance, instances, get, returned>>
frameVars == <<tui, frame, pages>>
appVars == <<drawQueued, run>>
envVars == <<osRelease, stateStore, ifaceAddrs, screenSize, clock>>
histVars == <<snap, stable, tainted>>
vars == <<wrapVars, addrVars, logVars, getVars, frameVars, appVars, sched, mc, envVars,
          histVars>>

(***************************************************************************)
(* Bounds of the model.                                                    *)
(***************************************************************************)
MaxLabelLen == 3
MaxTextLen == 5
MaxWidth == 6
MaxChunkLen == 4
MaxBody == 6
NumCallers == 2
MaxCalls == 2
ClearEvery == 12
RedrawTicks == 2
ConcTicks == 2
MaxAddrs == 4
SchedTicks == 26
LiveTicks == 2

(***************************************************************************)
(* Text.                                                                   *)
(***************************************************************************)
ByteLen(tok) ==
    CASE tok = "[green]" -> 7
      [] tok = "[white]" -> 7
      [] tok = "[orange]" -> 8
      [] tok = "[red]" -> 5
      [] tok = "level=" -> 6
      [] tok = "WARN" -> 4
      [] tok = "ERROR" -> 5
      [] OTHER -> 1

RECURSIVE StrLen(_)
StrLen(s) == IF s = <<>> THEN 0 ELSE ByteLen(Head(s)) + StrLen(Tail(s))

RECURSIVE Reverse(_)
Reverse(s) == IF s = <<>> THEN <<>> ELSE Append(Reverse(Tail(s)), Head(s))

RECURSIVE SplitAcc(_, _, _)
SplitAcc(s, cur, acc) ==
    IF s = <<>> THEN Append(acc, cur)
    ELSE IF Head(s) = " " THEN SplitAcc(Tail(s), <<>>, Append(acc, cur))
    ELSE SplitAcc(Tail(s), Append(cur, Head(s)), acc)

Split(s) == SplitAcc(s, <<>>, <<>>)

RECURSIVE SeqsUpTo(_, _)
SeqsUpTo(S, n) ==
    IF n = 0 THEN {<<>>}
    ELSE LET shorter == SeqsUpTo(S, n - 1)
         IN shorter \cup {Append(s, c) : s \in shorter, c \in S}

\* strings.HasPrefix(s, p).
IsPrefixOf(p, s) == Len(p) <= Len(s) /\ SubSeq(s, 1, Len(p)) = p

Elems(s) == {s[i] : i \in 1..Len(s)}

RECURSIVE Concat(_)
Concat(ss) == IF ss = <<>> THEN <<>> ELSE Head(ss) \o Concat(Tail(ss))

(***************************************************************************)
(* wrapFooterText.                                                         *)
(***************************************************************************)
LabelPrefix(label) == <<"[green]">> \o label \o <<":", "[white]", " ">>

\* Mutant: the comparison lets one character too many through.
FlushNeeded_Late(currentLen, word, maxLineLength) ==
    currentLen + StrLen(word) > maxLineLength + 1

FlushNeeded(currentLen, word, maxLineLength) ==
    currentLen + StrLen(word) > maxLineLength

RECURSIVE WrapLoop(_, _, _, _, _)
WrapLoop(words, ret, currentLine, currentLen, maxLineLength) ==
    IF words = <<>> THEN [ret |-> ret, currentLine |-> currentLine]
    ELSE LET word == Head(words)
             flush == FlushNeeded(currentLen, word, maxLineLength)
             ret1 == IF flush THEN Append(ret, currentLine) ELSE ret
             line1 == IF flush THEN <<>> ELSE currentLine
             len1 == IF flush THEN 0 ELSE currentLen
         IN WrapLoop(Tail(words), ret1, line1 \o word \o <<" ">>,
                     len1 + StrLen(word) + 1, maxLineLength)

\* Mutant: the lines are returned in wrap order.
FooterOrder_Unreversed(ret) == ret

FooterOrder(ret) == Reverse(ret)

\* Mutant: the line in progress when the words run out is not appended.
wrapFooterText_DropLast(label, text, maxLineLength) ==
    FooterOrder(WrapLoop(Split(text), <<>>, LabelPrefix(label),
                         StrLen(label) + 2, maxLineLength).ret)

wrapFooterText(label, text, maxLineLength) ==
    LET r == WrapLoop(Split(text), <<>>, LabelPrefix(label),
                      StrLen(label) + 2, maxLineLength)
        ret == IF Len(r.currentLine) > 0
               THEN Append(r.ret, r.currentLine) ELSE r.ret
    IN FooterOrder(ret)

WrapIdle ==
    /\ wLabel = <<>>
    /\ wText = <<>>
    /\ wWidth = 0
    /\ wOut = <<>>
    /\ wDone = FALSE

AddrIdle ==
    /\ addrsOut = <<>>
    /\ addrsDone = FALSE

(***************************************************************************)
(* The log sink: tui.Write.                                                *)
(***************************************************************************)
Contains(s, sub) ==
    \E i \in 1..(Len(s) - Len(sub) + 1) : SubSeq(s, i, i + Len(sub) - 1) = sub

WarnMarker == <<"level=", "WARN">>
ErrorMarker == <<"level=", "ERROR">>

\* Mutant: the error marker is looked for first.
Colorize_ErrorFirst(p) ==
    IF Contains(p, ErrorMarker) THEN <<"[red]">> \o p \o <<"[white]">>
    ELSE IF Contains(p, WarnMarker) THEN <<"[orange]">> \o p \o <<"[white]">>
    ELSE p

Colorize(p) ==
    IF Contains(p, WarnMarker) THEN <<"[orange]">> \o p \o <<"[white]">>
    ELSE IF Contains(p, ErrorMarker) THEN <<"[red]">> \o p \o <<"[white]">>
    ELSE p

\* Mutant: the colorized text goes to os.Stdout.
MirrorText_Colorized(p, s) == s

\* What Write hands to os.Stdout: string(p), not s.
MirrorText(p, s) == p

\* The error branch after the body write returns the body's count and error.
BodyReturn(num, err) == [n |-> num, err |-> err]

\* Mutant: the error of the mirror write is dropped.
MirrorReturn_ErrorDropped(n, err) == [n |-> n, err |-> "nil"]

\* Write's last statement returns the count and error of the mirror write.
MirrorReturn(n, err) == [n |-> n, err |-> err]

\* The tasks that write log records: one, the slog handler of the daemon.
Writers == {1}

WriterIdle ==
    [pc |-> "idle", p |-> <<>>, s |-> <<>>, num |-> 0,
     ret |-> [n |-> 0, err |-> "nil"],
     bodyAtCall |-> <<>>, mirrorAtCall |-> <<>>, events |-> <<>>]

WriteIdle ==
    /\ body = <<>>
    /\ mirror = <<>>
    /\ wr = [w \in Writers |-> WriterIdle]

\* Lines 45-53: the call, s := string(p) and the colorization.
WriteCall(w, p) ==
    /\ wr[w].pc = "idle"
    /\ Len(body) + Len(p) + 2 <= MaxBody
    /\ wr' = [wr EXCEPT ![w] = [WriterIdle EXCEPT
                 !.pc = "body", !.p = p, !.s = Colorize(p),
                 !.bodyAtCall = body, !.mirrorAtCall = mirror]]
    /\ UNCHANGED <<body, mirror>>
    /\ UNCHANGED <<wrapVars, addrVars, getVars, frameVars, appVars, sched, mc, envVars,
                   histVars>>

\* Lines 55-58: fmt.Fprint(t.textView, s).  The writer takes all of s, or
\* fails having taken the first k tokens of it.  The log pane's changed
\* function (lines 159-161) asks the application for a draw.
WriteBody(w) ==
    /\ wr[w].pc = "body"
    /\ \/ /\ body' = body \o wr[w].s
          /\ wr' = [wr EXCEPT ![w].pc = "mirror",
                              ![w].num = StrLen(wr[w].s),
                              ![w].events = Append(@, [op |-> "body", ok |-> TRUE])]
       \/ \E k \in 0..Len(wr[w].s) :
            /\ body' = body \o SubSeq(wr[w].s, 1, k)
            /\ wr' = [wr EXCEPT
                  ![w].pc = "done",
                  ![w].num = StrLen(SubSeq(wr[w].s, 1, k)),
                  ![w].ret = BodyReturn(StrLen(SubSeq(wr[w].s, 1, k)), "body"),
                  ![w].events = Append(@, [op |-> "body", ok |-> FALSE])]
    /\ drawQueued' = (drawQueued \/ body' # body)
    /\ UNCHANGED <<mirror, run>>
    /\ UNCHANGED <<wrapVars, addrVars, getVars, frameVars, sched, mc, envVars, histVars>>

\* Line 60: return fmt.Fprint(os.Stdout, string(p)).
WriteMirror(w) ==
    /\ wr[w].pc = "mirror"
    /\ LET text == MirrorText(wr[w].p, wr[w].s)
       IN \/ /\ mirror' = mirror \o text
             /\ wr' = [wr EXCEPT ![w].pc = "done",
                                 ![w].ret = MirrorReturn(StrLen(text), "nil"),
                                 ![w].events = Append(@, [op |-> "mirror", ok |-> TRUE])]
          \/ \E k \in 0..Len(text) :
               /\ mirror' = mirror \o SubSeq(text, 1, k)
               /\ wr' = [wr EXCEPT
                     ![w].pc = "done",
                     ![w].ret = MirrorReturn(StrLen(SubSeq(text, 1, k)), "mirror"),
                     ![w].events = Append(@, [op |-> "mirror", ok |-> FALSE])]
    /\ UNCHANGED body
    /\ UNCHANGED <<wrapVars, addrVars, getVars, frameVars, appVars, sched, mc, envVars,
                   histVars>>

\* The caller has the result.
WriteReturn(w) ==
    /\ wr[w].pc = "done"
    /\ wr' = [wr EXCEPT ![w] = WriterIdle]
    /\ UNCHANGED <<body, mirror>>
    /\ UNCHANGED <<wrapVars, addrVars, getVars, frameVars, appVars, sched, mc, envVars,
                   histVars>>

(***************************************************************************)
(* The singleton: GetTUI and newTUI.                                       *)
(***************************************************************************)
NilTUI ==
    [app |-> FALSE, frame |-> FALSE, pages |-> FALSE,
     screen |-> FALSE, textView |-> FALSE]

FullTUI ==
    [app |-> TRUE, frame |-> TRUE, pages |-> TRUE,
     screen |-> TRUE, textView |-> TRUE]

NewTUIOutcomes == {"ok", "ttyError", "screenError"}

\* newTUI: ret := &tui{}; both early returns hand back ret with the error.
newTUI(outcome) ==
    IF outcome = "ttyError" THEN [t |-> NilTUI, err |-> "tty"]
    ELSE IF outcome = "screenError" THEN [t |-> NilTUI, err |-> "screen"]
    ELSE [t |-> FullTUI, err |-> "nil"]

Callers == 1..NumCallers

CallerIdle == [pc |-> "idle", calls |-> 0, new |-> 0, err |-> "nil",
               ret |-> [t |-> 0, err |-> "nil"]]

GetIdle ==
    /\ tuiInstance = 0
    /\ instances = <<>>
    /\ get = [c \in Callers |-> CallerIdle]
    /\ returned = {}

\* A caller, with no call of its own in progress, calls GetTUI (line 31).
GetCall(c) ==
    /\ get[c].pc \in {"idle", "done"}
    /\ get[c].calls < MaxCalls
    /\ get' = [get EXCEPT ![c] = [CallerIdle EXCEPT
                  !.pc = "check", !.calls = get[c].calls + 1]]
    /\ UNCHANGED <<tuiInstance, instances, returned>>
    /\ UNCHANGED <<wrapVars, addrVars, logVars, frameVars, appVars, sched, mc, envVars,
                   histVars>>

\* Line 33: if tuiInstance == nil.
GetCheck(c) ==
    /\ get[c].pc = "check"
    /\ get' = [get EXCEPT ![c].pc = IF tuiInstance = 0 THEN "new" ELSE "return"]
    /\ UNCHANGED <<tuiInstance, instances, returned>>
    /\ UNCHANGED <<wrapVars, addrVars, logVars, frameVars, appVars, sched, mc, envVars,
                   histVars>>

\* Line 34, right-hand side: newTUI() allocates and builds a tui.
GetNew(c) ==
    /\ get[c].pc = "new"
    /\ \E outcome \in NewTUIOutcomes :
          /\ instances' = Append(instances, newTUI(outcome).t)
          /\ get' = [get EXCEPT ![c].pc = "store",
                                ![c].new = Len(instances) + 1,
                                ![c].err = newTUI(outcome).err]
    /\ UNCHANGED <<tuiInstance, returned>>
    /\ UNCHANGED <<wrapVars, addrVars, logVars, frameVars, appVars, sched, mc, envVars,
                   histVars>>

\* Lines 34-37: the assignment to tuiInstance and err, and the error return.
GetStore(c) ==
    /\ get[c].pc = "store"
    /\ tuiInstance' = get[c].new
    /\ get' = [get EXCEPT
          ![c].pc = IF get[c].err # "nil" THEN "done" ELSE "return",
          ![c].ret = IF get[c].err # "nil"
                     THEN [t |-> 0, err |-> get[c].err] ELSE @]
    /\ UNCHANGED <<instances, returned>>
    /\ UNCHANGED <<wrapVars, addrVars, logVars, frameVars, appVars, sched, mc, envVars,
                   histVars>>

\* Line 40: return tuiInstance, nil.
GetReturn(c) ==
    /\ get[c].pc = "return"
    /\ get' = [get EXCEPT ![c].pc = "done",
                          ![c].ret = [t |-> tuiInstance, err |-> "nil"]]
    /\ returned' = returned \cup {tuiInstance}
    /\ UNCHANGED <<tuiInstance, instances>>
    /\ UNCHANGED <<wrapVars, addrVars, logVars, frameVars, appVars, sched, mc, envVars,
                   histVars>>

(***************************************************************************)
(* Text of the dashboard: joining, ordering and the clock's format.        *)
(***************************************************************************)
\* The printable characters in byte order (the quote, the backslash and
\* the backquote, which no text of the dashboard holds, left out).
Ascii ==
    <<" ", "!", "#", "$", "%", "&", "'", "(", ")", "*", "+",
      ",", "-", ".", "/", "0", "1", "2", "3", "4", "5", "6", "7",
      "8", "9", ":", ";", "<", "=", ">", "?", "@", "A", "B", "C",
      "D", "E", "F", "G", "H", "I", "J", "K", "L", "M", "N", "O",
      "P", "Q", "R", "S", "T", "U", "V", "W", "X", "Y", "Z", "[",
      "]", "^", "_", "a", "b", "c", "d", "e", "f", "g",
      "h", "i", "j", "k", "l", "m", "n", "o", "p", "q", "r", "s",
      "t", "u", "v", "w", "x", "y", "z", "{", "|", "}", "~">>

CharCode(c) == CHOOSE i \in 1..Len(Ascii) : Ascii[i] = c

\* a < b as Go compares strings: byte by byte, a proper prefix first.
RECURSIVE StrLess(_, _)
StrLess(a, b) ==
    IF b = <<>> THEN FALSE
    ELSE IF a = <<>> THEN TRUE
    ELSE IF Head(a) = Head(b) THEN StrLess(Tail(a), Tail(b))
    ELSE CharCode(Head(a)) < CharCode(Head(b))

RECURSIVE InsertSorted(_, _)
InsertSorted(x, sorted) ==
    IF sorted = <<>> THEN <<x>>
    ELSE IF StrLess(x, Head(sorted)) THEN <<x>> \o sorted
    ELSE <<Head(sorted)>> \o InsertSorted(x, Tail(sorted))

\* Mutant: the list is left in the order the map gave it.
SortStrings_Unsorted(strs) == strs

\* slices.Sort on strings.
RECURSIVE SortStrings(_)
SortStrings(strs) ==
    IF strs = <<>> THEN <<>>
    ELSE InsertSorted(Head(strs), SortStrings(Tail(strs)))

\* strings.Join(strs, sep).
RECURSIVE Join(_, _)
Join(strs, sep) ==
    IF strs = <<>> THEN <<>>
    ELSE IF Len(strs) = 1 THEN strs[1]
    ELSE strs[1] \o sep \o Join(Tail(strs), sep)

DigitChars == <<"0", "1", "2", "3", "4", "5", "6", "7", "8", "9">>
Digit(n) == DigitChars[(n % 10) + 1]
Pad2(n) == <<Digit(n \div 10), Digit(n)>>
Pad4(n) == <<Digit(n \div 1000), Digit(n \div 100), Digit(n \div 10), Digit(n)>>

\* Mutant: the fields of the date and the time are not padded with zeros.
FormatTime_Unpadded(now) ==
    Pad4(now.year) \o <<"-", Digit(now.month), "-", Digit(now.day), " ",
                        Digit(now.hour), ":", Digit(now.minute),
                        " ", "U", "T", "C">>

\* Format("2006-01-02 15:04 UTC").
FormatTime(now) ==
    Pad4(now.year) \o <<"-">> \o Pad2(now.month) \o <<"-">> \o Pad2(now.day)
    \o <<" ">> \o Pad2(now.hour) \o <<":">> \o Pad2(now.minute)
    \o <<" ", "U", "T", "C">>

(***************************************************************************)
(* The data sources of a redraw.                                           *)
(***************************************************************************)
Releases ==
    {[ok |-> TRUE, text |-> <<"2", "5", ".", "1">>],
     [ok |-> FALSE, text |-> <<"n", "o", " ", "r", "e", "l", "e", "a", "s", "e">>]}

\* The applications of the state: name and version.
AppIncus == [name |-> <<"i", "n", "c", "u", "s">>, version |-> <<"6", ".", "1">>]
AppDebug == [name |-> <<"d", "e", "b", "u", "g">>, version |-> <<"1", ".", "0">>]

States ==
    {[ok |-> FALSE, apps |-> {}],
     [ok |-> TRUE, apps |-> {AppIncus, AppDebug}]}

AddrLoopback4 == <<"1", "2", "7", ".", "0", ".", "0", ".", "1", "/", "8">>
AddrLoopback6 == <<":", ":", "1", "/", "1", "2", "8">>
AddrLinkLocal == <<"f", "e", "8", "0", ":", ":", "1", "/", "6", "4">>
AddrLan == <<"1", "0", ".", "0", ".", "0", ".", "5", "/", "2", "4">>
AddrWan == <<"1", "9", "2", ".", "0", ".", "2", ".", "7", "/", "2", "4">>

Interfaces ==
    {[ok |-> TRUE, addrs |-> <<AddrLoopback4, AddrLan>>],
     [ok |-> TRUE,
      addrs |-> <<AddrLoopback4, AddrLoopback6, AddrLinkLocal, AddrLan, AddrWan>>]}

ScreenSizes == {[w |-> 30, h |-> 10], [w |-> 80, h |-> 24]}

Clocks ==
    {[year |-> 2025, month |-> 1, day |-> 2, hour |-> 3, minute |-> 4],
     [year |-> 2025, month |-> 1, day |-> 2, hour |-> 3, minute |-> 5]}

(***************************************************************************)
(* The frame and the pages (tview.Frame, tview.Pages).                     *)
(***************************************************************************)
NewFrame == [text |-> <<>>, primitive |-> "nil"]

\* Frame.Clear(): all header and footer text is removed.
FrameClear(f) == [f EXCEPT !.text = <<>>]

\* Frame.AddText(text, header, align, color).
FrameAddText(f, text, header, align) ==
    [f EXCEPT !.text = Append(@, [text |-> text, header |-> header,
                                  align |-> align, color |-> "white"])]

\* Frame.SetPrimitive(p).
FrameSetPrimitive(f, p) == [f EXCEPT !.primitive = p]

FramePage == [name |-> "frame", item |-> "frame"]

\* Mutant: the page is put on top of one of the same name.
PagesAddPage_Stacking(ps, page) == Append(ps, page)

\* Pages.AddPage(name, item, ...): a page of that name is replaced.
PagesAddPage(ps, page) ==
    Append(SelectSeq(ps, LAMBDA q : q.name # page.name), page)

\* Mutant: the top page is removed, whatever its name.
PagesRemovePage_Top(ps, name) == SubSeq(ps, 1, Len(ps) - 1)

\* Pages.RemovePage(name).
PagesRemovePage(ps, name) == SelectSeq(ps, LAMBDA q : q.name # name)

(***************************************************************************)
(* getIPAddresses.                                                         *)
(***************************************************************************)
LinkLocalPrefix == <<"f", "e", "8", "0", ":">>

\* Mutant: the link-local prefix is compared without its colon.
SkipAddr_PrefixNoColon(a) ==
    \/ a = <<>>
    \/ a = AddrLoopback4
    \/ a = AddrLoopback6
    \/ IsPrefixOf(<<"f", "e", "8", "0">>, a)

\* Line 230: the addresses the loop skips.
SkipAddr(a) ==
    \/ a = <<>>
    \/ a = AddrLoopback4
    \/ a = AddrLoopback6
    \/ IsPrefixOf(LinkLocalPrefix, a)

getIPAddresses(ifaces) ==
    IF ~ifaces.ok THEN <<ifaces.text>>
    ELSE SelectSeq(ifaces.addrs, LAMBDA a : ~SkipAddr(a))

(***************************************************************************)
(* Run and the scheduler goroutine; redrawScreen step by step.             *)
(***************************************************************************)
LabelIP == <<"I", "P", " ", "A", "d", "d", "r", "e", "s", "s", "(", "e", "s", ")">>
LabelApps == <<"I", "n", "s", "t", "a", "l", "l", "e", "d", " ", "a", "p", "p", "l", "i", "c", "a", "t", "i", "o", "n", "(", "s", ")">>

\* The display string of an application: app+"("+info.Version+")".
AppString(a) == a.name \o <<"(">> \o a.version \o <<")">>

\* The orders in which a range over the map may visit its entries.
MapOrders(apps) ==
    {o \in [1..Cardinality(apps) -> apps] :
        \A i, j \in 1..Cardinality(apps) : i # j => o[i] # o[j]}

\* Lines 190-197: the display strings in the order the map was visited,
\* then sorted.
Applications(st, order) ==
    SortStrings([i \in 1..Len(order) |-> AppString(order[i])])

\* Mutant: the error text is shown as if it were the version.
VersionText_Bare(rel) == rel.text

\* Lines 184-187: the version, or the error in square brackets.
VersionText(rel) ==
    IF rel.ok THEN rel.text ELSE <<"[">> \o rel.text \o <<"]">>

HeaderText(version) == <<"I", "n", "c", "u", "s", " ", "O", "S", " ">> \o version

CommaSpace == <<",", " ">>

\* The goroutines Run starts, one per call of Run (line 66).
Scheds == {1, 2}

\* The caller of the modal operations between two calls.  hist is history:
\* the last operation on the modal page, the AddPage calls it followed or
\* the last removal undid (counted up to 2), and whether it was a
\* RemovePage that found no modal.
ModalIdle ==
    [pc |-> "idle", hist |-> [op |-> "none", adds |-> 0, noop |-> FALSE]]

HasModal(ps) == \E i \in 1..Len(ps) : ps[i].name = "modal"

SchedOff ==
    [pc |-> "off", i |-> 0, clears |-> 0, incusOSVersion |-> <<>>,
     applications |-> <<>>, consoleWidth |-> 0, lines |-> <<>>,
     log |-> <<>>]

\* The dashboard as newTUI leaves it (lines 155-171).
DashBuilt ==
    /\ tui = FullTUI
    /\ frame = NewFrame
    /\ pages = <<FramePage>>
    /\ drawQueued = FALSE
    /\ run = [pc |-> "idle", runs |-> 0]
    /\ sched = [k \in Scheds |-> SchedOff]
    /\ mc = ModalIdle
    /\ osRelease = [ok |-> TRUE, text |-> <<"2", "5", ".", "1">>]
    /\ stateStore = [ok |-> TRUE, apps |-> {AppIncus, AppDebug}]
    /\ ifaceAddrs = [ok |-> TRUE, addrs |-> <<AddrLoopback4, AddrLan>>]
    /\ screenSize = [w |-> 30, h |-> 10]
    /\ clock = [year |-> 2025, month |-> 1, day |-> 2, hour |-> 3, minute |-> 4]
    /\ snap = NewFrame
    /\ stable = 0
    /\ tainted = FALSE

\* Lines 64-81: Run starts the goroutine and enters the event loop.
RunCall(k) ==
    /\ run.pc = "idle"
    /\ run.runs + 1 = k
    /\ sched[k].pc = "off"
    /\ sched' = [sched EXCEPT ![k].pc = "loop"]
    /\ run' = [pc |-> "eventloop", runs |-> k]
    /\ UNCHANGED <<wrapVars, addrVars, logVars, getVars, frameVars, drawQueued, mc,
                   envVars, histVars>>

\* t.app.Run() returns: Run returns to its caller.
RunReturn ==
    /\ run.pc = "eventloop"
    /\ run' = [run EXCEPT !.pc = "idle"]
    /\ UNCHANGED <<wrapVars, addrVars, logVars, getVars, frameVars, drawQueued, sched,
                   mc, envVars, histVars>>

\* The event loop of t.app.Run() serves a queued Draw().
AppDraw ==
    /\ run.pc = "eventloop"
    /\ drawQueued
    /\ drawQueued' = FALSE
    /\ UNCHANGED <<wrapVars, addrVars, logVars, getVars, frameVars, run, sched, mc,
                   envVars, histVars>>

SchedRest ==
    <<wrapVars, addrVars, logVars, getVars, tui, pages, drawQueued, run, mc, envVars>>

\* Mutant: the console is cleared on the ticks that are multiples of 12.
ClearDue_Multiple(i) == i % ClearEvery = 0

\* Line 71: i%12 == 1.
ClearDue(i) == i % ClearEvery = 1

\* Line 71: if i%12 == 1.
SchedLoop(k) ==
    /\ sched[k].pc = "loop"
    /\ sched' = [sched EXCEPT
          ![k].pc = IF ClearDue(sched[k].i) THEN "clear" ELSE "redraw"]
    /\ UNCHANGED <<SchedRest, frame, histVars>>

\* Mutant: the goroutine returns when the write fails.
SchedClear_FailStops(k) ==
    /\ sched[k].pc = "clear"
    /\ \E ok \in BOOLEAN :
          sched' = [sched EXCEPT
              ![k].pc = IF ok THEN "redraw" ELSE "off",
              ![k].clears = @ + 1,
              ![k].log = Append(@, IF ok THEN "clear" ELSE "clearFailed")]
    /\ UNCHANGED <<SchedRest, frame, histVars>>

\* Line 73: the write of ESC c to /dev/console; its error is dropped.
\* log is history: what the goroutine has done, in order.
SchedClear(k) ==
    /\ sched[k].pc = "clear"
    /\ \E ok \in BOOLEAN :
          sched' = [sched EXCEPT
              ![k].pc = "redraw",
              ![k].clears = @ + 1,
              ![k].log = Append(@, IF ok THEN "clear" ELSE "clearFailed")]
    /\ UNCHANGED <<SchedRest, frame, histVars>>

\* Lines 76, 179-187: redrawScreen is entered; without a frame it returns;
\* else the OS version is fetched.
RedrawVersion(k) ==
    /\ sched[k].pc = "redraw"
    /\ IF ~tui.frame
       THEN /\ sched' = [sched EXCEPT ![k].pc = "sleep",
                                         ![k].log = Append(@, "return")]
            /\ UNCHANGED histVars
       ELSE /\ sched' = [sched EXCEPT
                  ![k].pc = "r_state",
                  ![k].incusOSVersion = VersionText(osRelease)]
            /\ snap' = IF stable >= 1 THEN frame ELSE NewFrame
            /\ tainted' = FALSE
            /\ UNCHANGED stable
    /\ UNCHANGED <<SchedRest, frame>>

\* Lines 190-197: the applications of the state, sorted.
RedrawState(k) ==
    /\ sched[k].pc = "r_state"
    /\ \E order \in MapOrders(IF stateStore.ok THEN stateStore.apps ELSE {}) :
          sched' = [sched EXCEPT
              ![k].pc = "r_clear",
              ![k].applications = Applications(stateStore, order)]
    /\ UNCHANGED <<SchedRest, frame, histVars>>

\* Line 199.
RedrawClear(k) ==
    /\ sched[k].pc = "r_clear"
    /\ frame' = FrameClear(frame)
    /\ sched' = [sched EXCEPT ![k].pc = "r_header"]
    /\ UNCHANGED <<SchedRest, histVars>>

\* Line 201.
RedrawHeader(k) ==
    /\ sched[k].pc = "r_header"
    /\ frame' = FrameAddText(frame, HeaderText(sched[k].incusOSVersion),
                             TRUE, "center")
    /\ sched' = [sched EXCEPT ![k].pc = "r_time"]
    /\ UNCHANGED <<SchedRest, histVars>>

\* Line 202.
RedrawTime(k) ==
    /\ sched[k].pc = "r_time"
    /\ frame' = FrameAddText(frame, FormatTime(clock), TRUE, "right")
    /\ sched' = [sched EXCEPT ![k].pc = "r_size"]
    /\ UNCHANGED <<SchedRest, histVars>>

\* Line 204.
RedrawSize(k) ==
    /\ sched[k].pc = "r_size"
    /\ sched' = [sched EXCEPT ![k].pc = "r_ipwrap",
                              ![k].consoleWidth = screenSize.w]
    /\ UNCHANGED <<SchedRest, frame, histVars>>

\* Line 205: the lines the loop ranges over.
RedrawIPWrap(k) ==
    /\ sched[k].pc = "r_ipwrap"
    /\ sched' = [sched EXCEPT
          ![k].pc = "r_ipadd",
          ![k].lines = wrapFooterText(LabelIP,
                           Join(getIPAddresses(ifaceAddrs), CommaSpace),
                           sched[k].consoleWidth)]
    /\ UNCHANGED <<SchedRest, frame, histVars>>

\* Lines 205-207: one turn of the loop, or its end.
RedrawIPAdd(k) ==
    /\ sched[k].pc = "r_ipadd"
    /\ IF sched[k].lines = <<>>
       THEN /\ sched' = [sched EXCEPT ![k].pc = "r_appwrap"]
            /\ UNCHANGED frame
       ELSE /\ frame' = FrameAddText(frame, Head(sched[k].lines), FALSE, "left")
            /\ sched' = [sched EXCEPT ![k].lines = Tail(@)]
    /\ UNCHANGED <<SchedRest, histVars>>

\* Line 208: the lines the loop ranges over.
RedrawAppWrap(k) ==
    /\ sched[k].pc = "r_appwrap"
    /\ sched' = [sched EXCEPT
          ![k].pc = "r_appadd",
          ![k].lines = wrapFooterText(LabelApps,
                           Join(sched[k].applications, CommaSpace),
                           sched[k].consoleWidth)]
    /\ UNCHANGED <<SchedRest, frame, histVars>>

\* Lines 208-210: one turn of the loop, or its end.
RedrawAppAdd(k) ==
    /\ sched[k].pc = "r_appadd"
    /\ IF sched[k].lines = <<>>
       THEN /\ sched' = [sched EXCEPT ![k].pc = "r_primitive"]
            /\ UNCHANGED frame
       ELSE /\ frame' = FrameAddText(frame, Head(sched[k].lines), FALSE, "left")
            /\ sched' = [sched EXCEPT ![k].lines = Tail(@)]
    /\ UNCHANGED <<SchedRest, histVars>>

\* Lines 212-214.
RedrawPrimitive(k) ==
    /\ sched[k].pc = "r_primitive"
    /\ frame' = IF tui.textView THEN FrameSetPrimitive(frame, "textView")
                ELSE frame
    /\ sched' = [sched EXCEPT ![k].pc = "r_draw"]
    /\ UNCHANGED <<SchedRest, histVars>>

\* Line 216: t.app.Draw(); redrawScreen returns, its locals are gone.
RedrawDraw(k) ==
    /\ sched[k].pc = "r_draw"
    /\ drawQueued' = TRUE
    /\ sched' = [sched EXCEPT
          ![k] = [SchedOff EXCEPT !.pc = "sleep", !.i = sched[k].i,
                                  !.clears = sched[k].clears,
                                  !.log = Append(sched[k].log, "redraw")]]
    /\ stable' = IF tainted THEN 0 ELSE IF stable >= 2 THEN 2 ELSE stable + 1
    /\ UNCHANGED <<wrapVars, addrVars, logVars, getVars, frameVars, run, mc, envVars,
                   snap, tainted>>

\* Lines 77, 67: the sleep is over and i++.
SchedSleep(k, ticks) ==
    /\ sched[k].pc = "sleep"
    /\ sched[k].i + 1 < ticks
    /\ sched' = [sched EXCEPT ![k].pc = "loop", ![k].i = @ + 1]
    /\ UNCHANGED <<SchedRest, frame, histVars>>

(***************************************************************************)
(* DisplayModal and RemoveModal.                                           *)
(***************************************************************************)
ModalArgs ==
    {[title |-> <<"U", "p", "d", "a", "t", "e">>, msg |-> <<"D", "o", "w", "n", "l", "o", "a", "d", "i", "n", "g">>, progress |-> 0, maxProgress |-> 0],
     [title |-> <<"U", "p", "d", "a", "t", "e">>, msg |-> <<"D", "o", "w", "n", "l", "o", "a", "d", "i", "n", "g">>, progress |-> 1, maxProgress |-> 2]}

\* Lines 101-102.
ModalWidth(consoleWidth) == (consoleWidth * 3) \div 4
ModalHeight(consoleHeight) == consoleHeight \div 2

\* Lines 112-124: the rows of the grid.
GridRows(modalHeight, maxProgress) ==
    IF maxProgress > 0 THEN <<modalHeight - 6, 1>> ELSE <<modalHeight - 4>>

\* Lines 105-128: the page DisplayModal adds.
ModalPage(c) ==
    [name |-> "modal",
     item |-> [title |-> c.title, msg |-> c.msg,
               width |-> ModalWidth(c.consoleWidth),
               height |-> ModalHeight(c.consoleHeight),
               rows |-> GridRows(ModalHeight(c.consoleHeight), c.maxProgress),
               bar |-> IF c.maxProgress > 0
                       THEN <<[max |-> c.maxProgress, progress |-> c.progress]>>
                       ELSE <<>>]]

ModalRest ==
    <<wrapVars, addrVars, logVars, getVars, tui, frame, run, sched, envVars, histVars>>

\* Line 86: a caller calls DisplayModal.
DisplayModalCall(a) ==
    /\ mc.pc = "idle"
    /\ mc' = [pc |-> "m_size", title |-> a.title, msg |-> a.msg,
              progress |-> a.progress, maxProgress |-> a.maxProgress,
              consoleWidth |-> 0, consoleHeight |-> 0, hist |-> mc.hist]
    /\ UNCHANGED <<ModalRest, pages, drawQueued>>

\* Line 100.
ModalSize ==
    /\ mc.pc = "m_size"
    /\ mc' = [mc EXCEPT !.pc = "m_add", !.consoleWidth = screenSize.w,
                        !.consoleHeight = screenSize.h]
    /\ UNCHANGED <<ModalRest, pages, drawQueued>>

\* Lines 101-128.
ModalAddPage ==
    /\ mc.pc = "m_add"
    /\ pages' = PagesAddPage(pages, ModalPage(mc))
    /\ mc' = [mc EXCEPT
          !.pc = "m_draw",
          !.hist = [op |-> "add", noop |-> FALSE,
                    adds |-> IF ~HasModal(pages) THEN 1
                             ELSE IF mc.hist.op = "add" /\ mc.hist.adds < 2
                                  THEN mc.hist.adds + 1 ELSE 2]]
    /\ UNCHANGED <<ModalRest, drawQueued>>

\* Line 129.
ModalDraw ==
    /\ mc.pc = "m_draw"
    /\ drawQueued' = TRUE
    /\ mc' = [pc |-> "idle", hist |-> mc.hist]
    /\ UNCHANGED <<ModalRest, pages>>

\* Line 133: a caller calls RemoveModal.
RemoveModalCall ==
    /\ mc.pc = "idle"
    /\ mc' = [pc |-> "rm", hist |-> mc.hist]
    /\ UNCHANGED <<ModalRest, pages, drawQueued>>

\* Line 134.
RemoveModalPage ==
    /\ mc.pc = "rm"
    /\ pages' = PagesRemovePage(pages, "modal")
    /\ mc' = [pc |-> "idle",
              hist |-> [op |-> "remove", noop |-> ~HasModal(pages),
                        adds |-> mc.hist.adds]]
    /\ UNCHANGED <<ModalRest, drawQueued>>

(***************************************************************************)
(* The dashboard in use: Run and its goroutine, a caller of the modal      *)
(* operations and the log writers, all running concurrently.               *)
(***************************************************************************)
ConcChunks == {<<"level=", "WARN">>}

Init == WrapIdle /\ AddrIdle /\ WriteIdle /\ GetIdle /\ DashBuilt

Next ==
    \/ RunCall(1)
    \/ RunReturn
    \/ AppDraw
    \/ SchedLoop(1)
    \/ SchedClear(1)
    \/ RedrawVersion(1)
    \/ RedrawState(1)
    \/ RedrawClear(1)
    \/ RedrawHeader(1)
    \/ RedrawTime(1)
    \/ RedrawSize(1)
    \/ RedrawIPWrap(1)
    \/ RedrawIPAdd(1)
    \/ RedrawAppWrap(1)
    \/ RedrawAppAdd(1)
    \/ RedrawPrimitive(1)
    \/ RedrawDraw(1)
    \/ SchedSleep(1, ConcTicks)
    \/ \E a \in ModalArgs : DisplayModalCall(a)
    \/ ModalSize
    \/ ModalAddPage
    \/ ModalDraw
    \/ RemoveModalCall
    \/ RemoveModalPage
    \/ \E w \in Writers, p \in ConcChunks : WriteCall(w, p)
    \/ \E w \in Writers : WriteBody(w)
    \/ \E w \in Writers : WriteMirror(w)
    \/ \E w \in Writers : WriteReturn(w)

Spec == Init /\ [][Next]_vars

(***************************************************************************)
(* The sources change under the dashboard.                                 *)
(***************************************************************************)
EnvRest ==
    <<wrapVars, addrVars, logVars, getVars, frameVars, appVars, sched, mc>>

InRedraw(k) == sched[k].pc \notin {"off", "loop", "clear", "redraw", "sleep"}

\* History: the redraw in progress, if any, no longer counts as one made
\* with unchanged sources, and neither do those before it.
SourceChanged ==
    /\ stable' = 0
    /\ tainted' = \E k \in Scheds : InRedraw(k)
    /\ snap' = NewFrame
    /\ UNCHANGED EnvRest

ReleaseChanges ==
    /\ \E r \in Releases \ {osRelease} : osRelease' = r
    /\ UNCHANGED <<stateStore, ifaceAddrs, screenSize, clock>>
    /\ SourceChanged

StateChanges ==
    /\ \E st \in States \ {stateStore} : stateStore' = st
    /\ UNCHANGED <<osRelease, ifaceAddrs, screenSize, clock>>
    /\ SourceChanged

AddrsChange ==
    /\ \E a \in Interfaces \ {ifaceAddrs} : ifaceAddrs' = a
    /\ UNCHANGED <<osRelease, stateStore, screenSize, clock>>
    /\ SourceChanged

Resize ==
    /\ \E sz \in ScreenSizes \ {screenSize} : screenSize' = sz
    /\ UNCHANGED <<osRelease, stateStore, ifaceAddrs, clock>>
    /\ SourceChanged

MinutePasses ==
    /\ \E now \in Clocks \ {clock} : clock' = now
    /\ UNCHANGED <<osRelease, stateStore, ifaceAddrs, screenSize>>
    /\ SourceChanged

(***************************************************************************)
(* The redraw under changing sources: one Run, its goroutine.              *)
(***************************************************************************)
InitRedraw == WrapIdle /\ AddrIdle /\ WriteIdle /\ GetIdle /\ DashBuilt

NextRedraw ==
    \/ RunCall(1)
    \/ AppDraw
    \/ SchedLoop(1)
    \/ SchedClear(1)
    \/ RedrawVersion(1)
    \/ RedrawState(1)
    \/ RedrawClear(1)
    \/ RedrawHeader(1)
    \/ RedrawTime(1)
    \/ RedrawSize(1)
    \/ RedrawIPWrap(1)
    \/ RedrawIPAdd(1)
    \/ RedrawAppWrap(1)
    \/ RedrawAppAdd(1)
    \/ RedrawPrimitive(1)
    \/ RedrawDraw(1)
    \/ SchedSleep(1, RedrawTicks)
    \/ ReleaseChanges
    \/ StateChanges
    \/ AddrsChange
    \/ Resize
    \/ MinutePasses

SpecRedraw == InitRedraw /\ [][NextRedraw]_vars

(***************************************************************************)
(* The modal operations, one caller at a time, while the goroutine of Run  *)
(* redraws and the console is resized.                                     *)
(***************************************************************************)
InitModal == WrapIdle /\ AddrIdle /\ WriteIdle /\ GetIdle /\ DashBuilt

NextModal ==
    \/ RunCall(1)
    \/ AppDraw
    \/ SchedLoop(1)
    \/ SchedClear(1)
    \/ RedrawVersion(1)
    \/ RedrawState(1)
    \/ RedrawClear(1)
    \/ RedrawHeader(1)
    \/ RedrawTime(1)
    \/ RedrawSize(1)
    \/ RedrawIPWrap(1)
    \/ RedrawIPAdd(1)
    \/ RedrawAppWrap(1)
    \/ RedrawAppAdd(1)
    \/ RedrawPrimitive(1)
    \/ RedrawDraw(1)
    \/ SchedSleep(1, ConcTicks)
    \/ \E a \in ModalArgs : DisplayModalCall(a)
    \/ ModalSize
    \/ ModalAddPage
    \/ ModalDraw
    \/ RemoveModalCall
    \/ RemoveModalPage
    \/ Resize

SpecModal == InitModal /\ [][NextModal]_vars

(***************************************************************************)
(* The goroutine of Run over many ticks, the sources unchanged.            *)
(***************************************************************************)
InitTicks == WrapIdle /\ AddrIdle /\ WriteIdle /\ GetIdle /\ DashBuilt

NextTicks ==
    \/ RunCall(1)
    \/ AppDraw
    \/ SchedLoop(1)
    \/ SchedClear(1)
    \/ RedrawVersion(1)
    \/ RedrawState(1)
    \/ RedrawClear(1)
    \/ RedrawHeader(1)
    \/ RedrawTime(1)
    \/ RedrawSize(1)
    \/ RedrawIPWrap(1)
    \/ RedrawIPAdd(1)
    \/ RedrawAppWrap(1)
    \/ RedrawAppAdd(1)
    \/ RedrawPrimitive(1)
    \/ RedrawDraw(1)
    \/ SchedSleep(1, SchedTicks)

SpecTicks == InitTicks /\ [][NextTicks]_vars

(***************************************************************************)
(* Run called again after it has returned: each call starts a goroutine.   *)
(* The goroutines are followed through their first tick, up to the sleep.  *)
(***************************************************************************)
InitRuns == WrapIdle /\ AddrIdle /\ WriteIdle /\ GetIdle /\ DashBuilt

NextRuns ==
    \/ \E k \in Scheds : RunCall(k)
    \/ RunReturn
    \/ AppDraw
    \/ \E k \in Scheds : SchedLoop(k)
    \/ \E k \in Scheds : RedrawVersion(k)
    \/ \E k \in Scheds : RedrawState(k)
    \/ \E k \in Scheds : RedrawClear(k)
    \/ \E k \in Scheds : RedrawHeader(k)
    \/ \E k \in Scheds : RedrawTime(k)
    \/ \E k \in Scheds : RedrawSize(k)
    \/ \E k \in Scheds : RedrawIPWrap(k)
    \/ \E k \in Scheds : RedrawIPAdd(k)
    \/ \E k \in Scheds : RedrawAppWrap(k)
    \/ \E k \in Scheds : RedrawAppAdd(k)
    \/ \E k \in Scheds : RedrawPrimitive(k)
    \/ \E k \in Scheds : RedrawDraw(k)

SpecRuns == InitRuns /\ [][NextRuns]_vars

(***************************************************************************)
(* The goroutine of Run under fair scheduling, while the sources fail and  *)
(* recover and the event loop returns.                                     *)
(***************************************************************************)
InitLive == WrapIdle /\ AddrIdle /\ WriteIdle /\ GetIdle /\ DashBuilt

\* The steps of the goroutine Run started (lines 66-79): those that
\* compose a footer, and the others.
FooterStep(k) ==
    \/ RedrawIPWrap(k)
    \/ RedrawAppWrap(k)

OtherStep(k) ==
    \/ SchedLoop(k)
    \/ SchedClear(k)
    \/ RedrawVersion(k)
    \/ RedrawState(k)
    \/ RedrawClear(k)
    \/ RedrawHeader(k)
    \/ RedrawTime(k)
    \/ RedrawSize(k)
    \/ RedrawIPAdd(k)
    \/ RedrawAppAdd(k)
    \/ RedrawPrimitive(k)
    \/ RedrawDraw(k)
    \/ SchedSleep(k, LiveTicks)

SchedStep(k) == OtherStep(k) \/ FooterStep(k)

\* Where FooterStep(k) can be taken; taking it leaves the place.
AtFooterStep(k) == sched[k].pc \in {"r_ipwrap", "r_appwrap"}

NextLive ==
    \/ RunCall(1)
    \/ RunReturn
    \/ AppDraw
    \/ SchedStep(1)
    \/ ReleaseChanges
    \/ StateChanges

\* The Go scheduler runs a goroutine that can run, and a sleep ends: weak
\* fairness of the goroutine's steps.  For the steps that compose a footer
\* it is stated as what it comes to, the goroutine not standing at such a
\* step forever.
SpecLive ==
    /\ InitLive
    /\ [][NextLive]_vars
    /\ WF_vars(OtherStep(1))
    /\ []<>~AtFooterStep(1)

(***************************************************************************)
(* The singleton on its own: callers of GetTUI running concurrently.       *)
(***************************************************************************)
InitGet == WrapIdle /\ AddrIdle /\ WriteIdle /\ GetIdle /\ DashBuilt

NextGet ==
    \/ \E c \in Callers : GetCall(c)
    \/ \E c \in Callers : GetCheck(c)
    \/ \E c \in Callers : GetNew(c)
    \/ \E c \in Callers : GetStore(c)
    \/ \E c \in Callers : GetReturn(c)

SpecGet == InitGet /\ [][NextGet]_vars

(***************************************************************************)
(* The log sink on its own: one writer, any chunk, either write may fail.  *)
(***************************************************************************)
ChunkTokens == {"level=", "WARN", "ERROR"}
\* A log record is never empty.
Chunks == SeqsUpTo(ChunkTokens, MaxChunkLen) \ {<<>>}

InitWrite == WrapIdle /\ AddrIdle /\ WriteIdle /\ GetIdle /\ DashBuilt

NextWrite ==
    \/ \E w \in Writers, p \in Chunks : WriteCall(w, p)
    \/ \E w \in Writers : WriteBody(w)
    \/ \E w \in Writers : WriteMirror(w)
    \/ \E w \in Writers : WriteReturn(w)

SpecWrite == InitWrite /\ [][NextWrite]_vars

(***************************************************************************)
(* getIPAddresses on its own: any list of candidate addresses.             *)
(***************************************************************************)
\* An address that has the link-local prefix but for its colon.
AddrNoColon == <<"f", "e", "8", "0", "1", "/", "6", "4">>

AddrCandidates ==
    {<<>>, AddrLoopback4, AddrLoopback6, AddrLinkLocal, AddrLan, AddrWan,
     AddrNoColon}

\* What net.InterfaceAddrs may answer: an error, or a list of addresses.
AddrInputs ==
    {[ok |-> FALSE, text |-> <<"n", "o", " ", "n", "e", "t">>]}
    \cup {[ok |-> TRUE, addrs |-> l] : l \in SeqsUpTo(AddrCandidates, MaxAddrs)}

InitAddrs ==
    /\ WrapIdle
    /\ AddrIdle
    /\ WriteIdle
    /\ GetIdle
    /\ tui = FullTUI
    /\ frame = NewFrame
    /\ pages = <<FramePage>>
    /\ drawQueued = FALSE
    /\ run = [pc |-> "idle", runs |-> 0]
    /\ sched = [k \in Scheds |-> SchedOff]
    /\ mc = ModalIdle
    /\ osRelease = [ok |-> TRUE, text |-> <<"2", "5", ".", "1">>]
    /\ stateStore = [ok |-> TRUE, apps |-> {AppIncus, AppDebug}]
    /\ ifaceAddrs \in AddrInputs
    /\ screenSize = [w |-> 30, h |-> 10]
    /\ clock = [year |-> 2025, month |-> 1, day |-> 2, hour |-> 3, minute |-> 4]
    /\ snap = NewFrame
    /\ stable = 0
    /\ tainted = FALSE

\* Lines 220-238: a call of getIPAddresses and its return.
AddrsCall ==
    /\ ~addrsDone
    /\ addrsOut' = getIPAddresses(ifaceAddrs)
    /\ addrsDone' = TRUE
    /\ UNCHANGED <<wrapVars, logVars, getVars, frameVars, appVars, sched, mc,
                   envVars, histVars>>

NextAddrs == AddrsCall

SpecAddrs == InitAddrs /\ [][NextAddrs]_vars

(***************************************************************************)
(* The footer composer on its own: any label, text and width.              *)
(***************************************************************************)
LabelChars == {"a", " "}
TextChars == {"a", "b", " "}
\* A label neither starts nor ends with a space.
Labels == {l \in SeqsUpTo(LabelChars, MaxLabelLen) :
              l = <<>> \/ (l[1] # " " /\ l[Len(l)] # " ")}
Texts == SeqsUpTo(TextChars, MaxTextLen)
Widths == 0..MaxWidth

InitWrap ==
    /\ AddrIdle
    /\ WriteIdle
    /\ GetIdle
    /\ DashBuilt
    /\ wLabel \in Labels
    /\ wText \in Texts
    /\ wWidth \in Widths
    /\ wOut = <<>>
    /\ wDone = FALSE

WrapCall ==
    /\ ~wDone
    /\ wOut' = wrapFooterText(wLabel, wText, wWidth)
    /\ wDone' = TRUE
    /\ UNCHANGED <<wLabel, wText, wWidth>>
    /\ UNCHANGED <<addrVars, logVars, getVars, frameVars, appVars, sched, mc, envVars,
                   histVars>>

NextWrap == WrapCall

SpecWrap == InitWrap /\ [][NextWrap]_vars
(***************************************************************************)
(* Footer composer: what is displayed of a line.                           *)
(***************************************************************************)
IsDirective(tok) == tok \in {"[green]", "[white]", "[orange]", "[red]"}

\* The characters of a line that take a cell on the screen.
Visible(line) == SelectSeq(line, LAMBDA tok : ~IsDirective(tok))

\* A line without the separator space that follows its last word.
DropSeparator(line) ==
    IF line # <<>> /\ line[Len(line)] = " "
    THEN SubSeq(line, 1, Len(line) - 1) ELSE line

\* One word: not empty and without a space.
IsWord(s) == s # <<>> /\ " " \notin Elems(s)

WrapWords == Split(wText)

\* The words of a returned line, the label prefix taken off the label line.
LineWords(line) ==
    LET rest == IF IsPrefixOf(LabelPrefix(wLabel), line)
                THEN SubSeq(line, Len(LabelPrefix(wLabel)) + 1, Len(line))
                ELSE line
    IN IF rest = <<>> THEN <<>> ELSE Split(DropSeparator(rest))

RECURSIVE AllLineWords(_)
AllLineWords(lines) ==
    IF lines = <<>> THEN <<>>
    ELSE LineWords(Head(lines)) \o AllLineWords(Tail(lines))

\* C7 as stated, where no single word is longer than width (neither a word
\* of the value nor one of the label with its colon), and read in its
\* favour (the color directives and the separator space that ends a line
\* are not counted): no returned line is longer than width characters.
C7_NoLineExceedsWidth ==
    (/\ wDone
     /\ \A k \in 1..Len(WrapWords) : Len(WrapWords[k]) <= wWidth
     /\ \A k \in 1..Len(Split(wLabel \o <<":">>)) :
           Len(Split(wLabel \o <<":">>)[k]) <= wWidth) =>
        \A i \in 1..Len(wOut) : Len(DropSeparator(Visible(wOut[i]))) <= wWidth

\* C7 (amended): the color directives and the separator space that ends a
\* line not counted, every returned line is at most width characters long,
\* except a line that holds only the label prefix, or only one word of the
\* value, which alone is longer than width; and every word of the value
\* longer than width is alone on a line, verbatim and unbroken.
C7_TextWithinWidth ==
    wDone =>
        /\ \A i \in 1..Len(wOut) :
              LET shown == DropSeparator(Visible(wOut[i]))
              IN \/ Len(shown) <= wWidth
                 \/ /\ i = Len(wOut)
                    /\ shown = wLabel \o <<":">>
                 \/ /\ IsWord(shown)
                    /\ \E k \in 1..Len(WrapWords) : WrapWords[k] = shown
        /\ \A k \in 1..Len(WrapWords) :
              StrLen(WrapWords[k]) > wWidth =>
                  \E i \in 1..Len(wOut) : wOut[i] = WrapWords[k] \o <<" ">>

\* C7 witness: a word longer than the width came out alone among other lines.
C7_Witness ==
    /\ wDone
    /\ wWidth >= 2
    /\ Len(wOut) >= 3
    /\ \E k \in 1..Len(WrapWords) :
          /\ StrLen(WrapWords[k]) > wWidth
          /\ \E i \in 1..Len(wOut) : wOut[i] = WrapWords[k] \o <<" ">>

\* C8: with an empty value there is a line holding the label, and nothing
\* but blank space follows the label prefix on it.
C8_EmptyValueLabelLine ==
    (wDone /\ wText = <<>>) =>
        /\ Len(wOut) >= 1
        /\ \E i \in 1..Len(wOut) :
              /\ IsPrefixOf(LabelPrefix(wLabel), wOut[i])
              /\ \A j \in (Len(LabelPrefix(wLabel)) + 1)..Len(wOut[i]) :
                    wOut[i][j] = " "

\* C8 witness: an empty value was wrapped under a label that is not empty.
C8_Witness ==
    /\ wDone
    /\ wText = <<>>
    /\ Len(wLabel) >= 2
    /\ Len(wOut) >= 1

\* C9: the returned lines reversed are the top-down order: the label prefix
\* on the first of them (the last returned) and on no other, and the words
\* of the value across them in their order, each once.
C9_ReverseRestoresOrder ==
    wDone =>
        /\ Len(wOut) >= 1
        /\ IsPrefixOf(LabelPrefix(wLabel), Reverse(wOut)[1])
        /\ IsPrefixOf(LabelPrefix(wLabel), wOut[Len(wOut)])
        /\ \A i \in 1..(Len(wOut) - 1) : "[green]" \notin Elems(wOut[i])
        /\ AllLineWords(Reverse(wOut)) = WrapWords

\* C9 witness: a value of several words came out on several lines.
C9_Witness ==
    /\ wDone
    /\ Len(wOut) >= 3
    /\ Len(WrapWords) >= 3
    /\ \A k \in 1..Len(WrapWords) : WrapWords[k] # <<>>
(***************************************************************************)
(* Log sink: the call of the one writer, once Write has returned.          *)
(***************************************************************************)
Call == wr[1]
Returned == Call.pc = "done"
BodyOk == [op |-> "body", ok |-> TRUE]
BodyFailed == [op |-> "body", ok |-> FALSE]
MirrorOk == [op |-> "mirror", ok |-> TRUE]
MirrorFailed == [op |-> "mirror", ok |-> FALSE]

\* A level marker in a chunk: the key followed by the level.
HasLevel(p, level) ==
    \E i \in 1..(Len(p) - 1) : p[i] = "level=" /\ p[i + 1] = level

IsPrefixText(p, s) == \E k \in 0..Len(s) : p = SubSeq(s, 1, k)

C4_CountOfOriginalBytes ==
    Returned =>
        /\ 0 <= Call.ret.n
        /\ Call.ret.n <= StrLen(Call.p)
        /\ Call.events = <<BodyOk, MirrorOk>> => Call.ret.n = StrLen(Call.p)

\* C5: body write succeeded, mirror write failed: the mirror's error is
\* returned, the colorized chunk stays in the body, neither write is
\* made again.
C5_MirrorErrorSurfaced ==
    (Returned /\ MirrorFailed \in Elems(Call.events)) =>
        /\ Call.ret.err = "mirror"
        /\ Call.events = <<BodyOk, MirrorFailed>>
        /\ body = Call.bodyAtCall \o Call.s
        /\ Len(Call.s) >= Len(Call.p)

\* C5 witness: the mirror write failed part-way after a chunk went to the
\* body.
C5_Witness ==
    /\ Returned
    /\ Call.events = <<BodyOk, MirrorFailed>>
    /\ Call.p # <<>>
    /\ body = Call.bodyAtCall \o Call.s
    /\ mirror # Call.mirrorAtCall
    /\ mirror # Call.mirrorAtCall \o Call.p

\* C6: the color is decided per chunk by the markers in it: warning color
\* with a warning marker (also beside an error marker), error color with an
\* error marker only, no change without a marker; the body takes that text.
C6_ColorByMarker ==
    Call.pc # "idle" =>
        /\ HasLevel(Call.p, "WARN") =>
              Call.s = <<"[orange]">> \o Call.p \o <<"[white]">>
        /\ (HasLevel(Call.p, "ERROR") /\ ~HasLevel(Call.p, "WARN")) =>
              Call.s = <<"[red]">> \o Call.p \o <<"[white]">>
        /\ (~HasLevel(Call.p, "ERROR") /\ ~HasLevel(Call.p, "WARN")) =>
              Call.s = Call.p
        /\ BodyOk \in Elems(Call.events) => body = Call.bodyAtCall \o Call.s

\* C6 witness: a chunk with both markers reached the body as a warning.
C6_Witness ==
    /\ Returned
    /\ HasLevel(Call.p, "WARN")
    /\ HasLevel(Call.p, "ERROR")
    /\ BodyOk \in Elems(Call.events)
    /\ body = Call.bodyAtCall \o <<"[orange]">> \o Call.p \o <<"[white]">>
(***************************************************************************)
(* Singleton.                                                              *)
(***************************************************************************)
AllBuilt == \A i \in 1..Len(instances) : instances[i] = FullTUI

\* C1: with every construction succeeding, newTUI runs at most once and
\* every call of GetTUI, concurrent or later, gets the same instance.
C1_SingletonRaceSafe ==
    AllBuilt =>
        /\ Len(instances) <= 1
        /\ Cardinality(returned) <= 1
        /\ \A c \in Callers :
              (get[c].pc = "done" /\ get[c].ret.err = "nil") =>
                  get[c].ret.t = tuiInstance
(***************************************************************************)
(* Dashboard: the tasks inside a step that changes frame, pages or body.   *)
(***************************************************************************)
SchedMutates(k) ==
    sched[k].pc \in {"r_clear", "r_header", "r_time", "r_ipadd", "r_appadd",
                     "r_primitive"}
ModalMutates == mc.pc \in {"m_add", "rm"}
WriterMutates(w) == wr[w].pc = "body"

Mutating ==
    {<<"scheduler", k>> : k \in {j \in Scheds : SchedMutates(j)}}
    \cup {<<"modal", 1>> : x \in {y \in {1} : ModalMutates}}
    \cup {<<"writer", w>> : w \in {v \in Writers : WriterMutates(v)}}

\* C2: in no reachable state are two tasks inside their steps that change
\* the frame, the pages or the log body.
C2_MutationsSerialized == Cardinality(Mutating) <= 1

\* History of the redraws: the one that has just returned.
RedrawReturned == sched[1].pc = "sleep"
HeaderItems(f) == SelectSeq(f.text, LAMBDA it : it.header)
FooterItems(f) == SelectSeq(f.text, LAMBDA it : ~it.header)

\* C10: a redraw made with the sources as the redraw before it had them
\* leaves the frame as that redraw left it: the same items in the same
\* order and the same primitive; the header items never pile up.
C10_RedrawIdempotent ==
    RedrawReturned =>
        /\ Len(HeaderItems(frame)) = 2
        /\ stable >= 2 => frame = snap

\* C10 witness: a second redraw in a row over two applications and footers
\* wrapped over several lines left the frame as it found it.
C10_Witness ==
    /\ RedrawReturned
    /\ stable = 2
    /\ frame = snap
    /\ stateStore.ok
    /\ Cardinality(stateStore.apps) = 2
    /\ Len(FooterItems(frame)) >= 4
    /\ frame.primitive = "textView"
(***************************************************************************)
(* Redraw with failing sources.                                            *)
(***************************************************************************)
ProductName == <<"I", "n", "c", "u", "s", " ", "O", "S", " ">>

\* The redraw that has just returned ran with the sources as they are now.
RedrawCurrent == RedrawReturned /\ stable >= 1

\* The frame after a redraw made while the sources failed.
FailureRendered ==
    /\ Len(HeaderItems(frame)) = 2
    /\ ~osRelease.ok =>
          HeaderItems(frame)[1].text =
              ProductName \o <<"[">> \o osRelease.text \o <<"]">>
    /\ ~stateStore.ok =>
          LET fs == FooterItems(frame)
              n == Len(fs)
          IN  /\ n >= 2
              /\ fs[n].text = LabelPrefix(LabelApps) \o <<" ">>
              /\ IsPrefixOf(LabelPrefix(LabelIP), fs[n - 1].text)
    /\ frame.primitive = "textView"
    /\ sched[1].log[Len(sched[1].log)] = "redraw"

\* C11: a redraw made while the OS-release query fails shows the error in
\* square brackets in place of the version, one made while the state load
\* fails shows the application footer with an empty list; either way the
\* redraw runs to its end, the frame cleared and repopulated, and its last
\* step asks for the repaint.
C11_RedrawSurvivesFailure ==
    /\ [](RedrawCurrent => FailureRendered)
    /\ [][(sched[1].pc = "r_draw" /\ sched'[1].pc = "sleep") => drawQueued']_vars

\* C11 witness: a redraw has returned with both sources failing.
C11_Witness ==
    /\ RedrawCurrent
    /\ ~osRelease.ok
    /\ ~stateStore.ok
    /\ drawQueued
    /\ HeaderItems(frame)[1].text =
          ProductName \o <<"[", "n", "o", " ", "r", "e", "l", "e", "a", "s", "e", "]">>
    /\ Len(FooterItems(frame)) >= 2
(***************************************************************************)
(* getIPAddresses: the addresses that are shown.                           *)
(***************************************************************************)
\* An address that is none of: empty, the IPv4 loopback 127.0.0.1/8, the
\* IPv6 loopback ::1/128, one that starts with fe80:.
Shown(a) ==
    /\ Len(a) > 0
    /\ a # <<"1", "2", "7", ".", "0", ".", "0", ".", "1", "/", "8">>
    /\ a # <<":", ":", "1", "/", "1", "2", "8">>
    /\ ~(Len(a) >= 5 /\ SubSeq(a, 1, 5) = <<"f", "e", "8", "0", ":">>)

\* C12: for any list of candidate addresses the interface enumeration
\* reports, getIPAddresses returns exactly the candidates that are neither
\* empty, nor a loopback literal, nor prefixed with fe80:, in the order of
\* the enumeration.
C12_ExactlyNonLocalInOrder ==
    (addrsDone /\ ifaceAddrs.ok) =>
        addrsOut = SelectSeq(ifaceAddrs.addrs, Shown)

\* C12 witness: {127.0.0.1/8, ::1/128, fe80::1/64, 10.0.0.5/24} has given
\* {10.0.0.5/24}.
C12_Witness ==
    /\ addrsDone
    /\ ifaceAddrs.ok
    /\ ifaceAddrs.addrs = <<AddrLoopback4, AddrLoopback6, AddrLinkLocal, AddrLan>>
    /\ addrsOut = <<AddrLan>>
(***************************************************************************)
(* The pages.                                                              *)
(***************************************************************************)
ModalReturned == mc.pc = "idle"

\* C13: the pages are the base page "frame" and at most one page "modal"
\* on top of it, and no other; when DisplayModal has added its page, the
\* one modal page is the page of that call, whether or not a modal was
\* shown before.
C13_FrameAndAtMostOneModal ==
    /\ Len(pages) \in {1, 2}
    /\ pages[1] = FramePage
    /\ Len(pages) = 2 => pages[2].name = "modal"
    /\ mc.pc = "m_draw" => pages = <<FramePage, ModalPage(mc)>>

\* C13 witness: a DisplayModal with a progress bar has replaced the modal
\* of two earlier DisplayModal calls.
C13_Witness ==
    /\ mc.pc = "m_draw"
    /\ mc.hist = [op |-> "add", adds |-> 2, noop |-> FALSE]
    /\ mc.maxProgress > 0
    /\ pages = <<FramePage, ModalPage(mc)>>
    /\ frame.text # <<>>

\* C14: when RemoveModal has returned, the base frame is the only page,
\* however many DisplayModal calls came before it; the step of RemoveModal
\* leaves the frame and the log body as they are, and the pages too when
\* there is no modal.
C14_RemoveRestoresBase ==
    /\ []((ModalReturned /\ mc.hist.op = "remove") => pages = <<FramePage>>)
    /\ [][(mc.pc = "rm" /\ mc'.pc = "idle") =>
            /\ frame' = frame
            /\ body' = body
            /\ ~HasModal(pages) => pages' = pages]_vars

\* C14 witness: a RemoveModal has removed the modal of two DisplayModal
\* calls, and the RemoveModal after it found no modal.
C14_Witness ==
    /\ ModalReturned
    /\ mc.hist = [op |-> "remove", adds |-> 2, noop |-> TRUE]
    /\ pages = <<FramePage>>
    /\ frame.text # <<>>
(***************************************************************************)
(* The layout of the modal.                                                *)
(***************************************************************************)
\* The modal DisplayModal has just added, the console size it read still
\* in its locals.
ModalAdded == mc.pc = "m_draw" /\ HasModal(pages)

\* C19: the modal is floor(3*W/4) wide and floor(H/2) high for the console
\* size (W, H); it has a progress-bar row, of one row, exactly when
\* maxProgress > 0, the message region then being height-6 rows, and
\* height-4 rows otherwise; the message region has a positive number of
\* rows.
C19_ModalLayout ==
    ModalAdded =>
        LET it == pages[Len(pages)].item
            W == mc.consoleWidth
            H == mc.consoleHeight
        IN  /\ 4 * it.width <= 3 * W
            /\ 3 * W < 4 * (it.width + 1)
            /\ 2 * it.height <= H
            /\ H < 2 * (it.height + 1)
            /\ (Len(it.bar) = 1) = (mc.maxProgress > 0)
            /\ (Len(it.bar) = 0) = ~(mc.maxProgress > 0)
            /\ Len(it.rows) = 1 + Len(it.bar)
            /\ Len(it.bar) = 1 => it.rows = <<it.height - 6, 1>>
            /\ Len(it.bar) = 0 => it.rows = <<it.height - 4>>
            /\ it.rows[1] > 0
(***************************************************************************)
(* The ticks of the scheduler, read from what the goroutine has done.      *)
(***************************************************************************)
IsClear(e) == e \in {"clear", "clearFailed"}

\* The redraws among the first n entries of a log.
RedrawsIn(log, n) == Cardinality({j \in 1..n : log[j] = "redraw"})
Redraws(k) == RedrawsIn(sched[k].log, Len(sched[k].log))

\* The ticks the goroutine has begun.
TicksBegun(k) == IF sched[k].pc = "off" THEN 0 ELSE sched[k].i + 1

\* The n-th redraw of a log had the clear before it.
ClearedTick(log, n) ==
    \E j \in 2..Len(log) :
        /\ log[j] = "redraw"
        /\ RedrawsIn(log, j) = n
        /\ IsClear(log[j - 1])

\* C15: every tick redraws; the clear is written on exactly one of any 12
\* consecutive ticks, right before the redraw of that tick; 12 redraws lie
\* between a clear and the next; the first tick redraws with no clear
\* before it.
C15_ClearEveryTwelfthTick ==
    LET log == sched[1].log
        n == Len(log)
    IN  /\ Redraws(1) = IF sched[1].pc = "sleep" THEN TicksBegun(1)
                        ELSE IF sched[1].pc = "off" THEN 0
                        ELSE TicksBegun(1) - 1
        /\ \A j \in 1..n : log[j] = "redraw" \/ IsClear(log[j])
        /\ n >= 1 => log[1] = "redraw"
        /\ \A j \in 1..(n - 1) : IsClear(log[j]) => log[j + 1] = "redraw"
        /\ \A t \in 1..(Redraws(1) - 11) :
              Cardinality({u \in t..(t + 11) : ClearedTick(log, u)}) = 1
        /\ \A j, l \in 1..n :
              (/\ j < l
               /\ IsClear(log[j])
               /\ IsClear(log[l])
               /\ \A x \in (j + 1)..(l - 1) : ~IsClear(log[x])) =>
                  RedrawsIn(log, l) - RedrawsIn(log, j) = 12

\* C15 witness: 26 ticks have redrawn, the second, the 14th and the 26th
\* after a clear, one of which failed.
C15_Witness ==
    /\ sched[1].pc = "sleep"
    /\ Redraws(1) = 26
    /\ ClearedTick(sched[1].log, 2)
    /\ ClearedTick(sched[1].log, 14)
    /\ ClearedTick(sched[1].log, 26)
    /\ \E j \in 1..Len(sched[1].log) : sched[1].log[j] = "clearFailed"
    /\ \E j \in 1..Len(sched[1].log) : sched[1].log[j] = "clear"
C17_FailureNotMasked ==
    /\ \A c \in Callers :
          (get[c].pc = "done" /\ get[c].err # "nil") =>
              get[c].ret = [t |-> 0, err |-> get[c].err]
    /\ tuiInstance # 0 => instances[tuiInstance] = FullTUI
    /\ \A t \in returned : t # 0 /\ instances[t] = FullTUI
(***************************************************************************)
(* The frame a redraw leaves.                                              *)
(***************************************************************************)
\* A text of the form YYYY-MM-DD HH:MM UTC.
IsTimestamp(t) ==
    /\ Len(t) = 20
    /\ \A i \in {1, 2, 3, 4, 6, 7, 9, 10, 12, 13, 15, 16} :
          t[i] \in {"0", "1", "2", "3", "4", "5", "6", "7", "8", "9"}
    /\ t[5] = "-"
    /\ t[8] = "-"
    /\ t[11] = " "
    /\ t[14] = ":"
    /\ SubSeq(t, 17, 20) = <<" ", "U", "T", "C">>

\* The frame holds two header items, the product and version with the given
\* alignment and the timestamp right-aligned, then the footer lines of the
\* IP addresses, then those of the applications, each group ending with
\* the line that carries its label; its primitive is the log pane.
FrameAfterRedraw(labelAlign) ==
    LET n == Len(frame.text)
        ipLabelled == {i \in 3..n :
                         IsPrefixOf(LabelPrefix(LabelIP), frame.text[i].text)}
    IN  /\ n >= 4
        /\ \A i \in 1..n : frame.text[i].header = (i <= 2)
        /\ IsPrefixOf(ProductName, frame.text[1].text)
        /\ frame.text[1].align = labelAlign
        /\ IsTimestamp(frame.text[2].text)
        /\ frame.text[2].align = "right"
        /\ \A i \in 3..n : frame.text[i].align = "left"
        /\ Cardinality(ipLabelled) = 1
        /\ \A i \in ipLabelled : i < n
        /\ IsPrefixOf(LabelPrefix(LabelApps), frame.text[n].text)
        /\ \A i \in 3..(n - 1) :
              ~IsPrefixOf(LabelPrefix(LabelApps), frame.text[i].text)
        /\ frame.primitive = "textView"

Looping == {k \in Scheds : sched[k].pc # "off"}

\* C20: whatever calls of Run are made, at most one goroutine is in the
\* redraw loop at any time.
C20_AtMostOneScheduler == Cardinality(Looping) <= 1
====
